---- MODULE Spec2Model ----
(***************************************************************************)
(* thetacheck: the test loop of main(), src/thetacheck.py lines 48-164.   *)
(*                                                                         *)
(* Texts (file names, file contents, program output) are sequences of     *)
(* one-character strings.  A path is written without the directory prefix *)
(* that os.path.join puts before every file of one run.                   *)
(* The directory's content is fixed during a run and every file is read   *)
(* at most once, so the content of a file is drawn when the code reads    *)
(* it.  A parameter that main reads in one place only (shuffle, do_sort,  *)
(* natural_sort, limit) is an input of the step that reads it; the        *)
(* parameters the loop reads again for every case are variables.          *)
(* verbose, extra_verbose and tqdm change only what is printed between    *)
(* the [Error] lines and the terminal report, which the model leaves out. *)
(***************************************************************************)
EXTENDS Integers, Sequences, FiniteSets, TLC

VARIABLES
    \* parameters of main that the loop reads (lines 48-50)
    checker, result_dist, empty_means_any, timer,
    \* whether the input file of single-file mode is there (directory mode: TRUE)
    in_exists,
    \* locals of main
    files, approx_total, total, correct, overtime_count, wrong, overtime, times,
    idx, file, out_present, indata, outdata, out, time_taken, is_correct,
    \* position in main, the exception that left it, where the interrupt arrived,
    \* the [Error] lines printed, the processes run, the terminal report
    pc, raised, interrupted, errors, calls, report

vars == <<checker, result_dist, empty_means_any, timer, in_exists,
          files, approx_total, total, correct, overtime_count, wrong, overtime, times,
          idx, file, out_present, indata, outdata, out, time_taken, is_correct,
          pc, raised, interrupted, errors, calls, report>>

config == <<checker, result_dist, empty_means_any, timer, in_exists>>

stats == <<total, correct, overtime_count, wrong, overtime, times>>

locals == <<file, out_present, indata, outdata, out, time_taken, is_correct>>

----------------------------------------------------------------------------
\* Bounds of the model

\* most *.in files in the directory
MaxFiles == 2

\* most *.in files in the directory whose ordering alone is followed
MaxNames == 3

----------------------------------------------------------------------------
\* Texts

Digits == <<"0", "1", "2", "3", "4", "5", "6", "7", "8", "9">>

IsDigit(c) == \E i \in 1..10 : Digits[i] = c

DigitVal(c) == (CHOOSE i \in 1..10 : Digits[i] = c) - 1

IsSpace(c) == c \in {" ", "\n"}

RECURSIVE LStrip(_)
LStrip(s) == IF s # <<>> /\ IsSpace(Head(s)) THEN LStrip(Tail(s)) ELSE s

RECURSIVE RStrip(_)
RStrip(s) ==
    IF s # <<>> /\ IsSpace(s[Len(s)]) THEN RStrip(SubSeq(s, 1, Len(s) - 1)) ELSE s

\* str.strip()
Strip(s) == RStrip(LStrip(s))

\* file[:-3]
DropLast3(s) == SubSeq(s, 1, Len(s) - 3)

InSuffix == <<".", "i", "n">>

\* the test names a directory may hold, in no particular order
Catalogue ==
    << <<"t", "2">>, <<"t", "1", "0">>, <<"t", "1">>, <<"a">>, <<"t", "0", "1">> >>

\* what a .in file may hold
InTexts == { <<>>, <<"\n">>, <<"5">>, <<" ", "5", "\n">> }

\* what a .out file may hold
ExpectedTexts == { <<>>, <<"\n">>, <<"5", "\n">>, <<"5", ".">> }

\* what the subject may write to stdout
OutTexts == { <<"5", "\n">>, <<" ", "6">>, <<"a">> }

----------------------------------------------------------------------------
\* Numbers: float(), abs, round(_, 10) and <= of line 131.
\* A number is hi * 10^6 + lo units of 10^-11, with 0 <= lo < 10^6.  The model
\* keeps the first 11 decimals of a text and magnitudes far below 2^31 / 10^5, where
\* the binary rounding error of the subtraction is far below one unit.

LoBase == 1000000

Norm(h, l) == [hi |-> h + (l \div LoBase), lo |-> l % LoBase]

RECURSIVE DigitsToInt(_)
DigitsToInt(ds) ==
    IF ds = <<>> THEN 0
    ELSE 10 * DigitsToInt(SubSeq(ds, 1, Len(ds) - 1)) + DigitVal(ds[Len(ds)])

\* the first n characters of ds followed by zeros
PadRight(ds, n) == [i \in 1..n |-> IF i <= Len(ds) THEN ds[i] ELSE "0"]

HasSign(s) == s # <<>> /\ s[1] \in {"-", "+"}

Unsigned(s) == IF HasSign(s) THEN Tail(s) ELSE s

DotAt(s) == {i \in 1..Len(s) : s[i] = "."}

\* float(s) raises ValueError
FloatFails(s) ==
    LET b == Unsigned(s) IN
    \/ Cardinality(DotAt(b)) > 1
    \/ \E i \in 1..Len(b) : ~IsDigit(b[i]) /\ b[i] # "."
    \/ ~\E i \in 1..Len(b) : IsDigit(b[i])

\* float(s), for a text float() accepts
Float(s) ==
    LET b == Unsigned(s)
        d == IF DotAt(b) = {} THEN Len(b) + 1 ELSE CHOOSE i \in DotAt(b) : TRUE
        ip == DigitsToInt(SubSeq(b, 1, d - 1))
        fr == PadRight(SubSeq(b, d + 1, Len(b)), 11)
        h == ip * 100000 + DigitsToInt(SubSeq(fr, 1, 5))
        l == DigitsToInt(SubSeq(fr, 6, 11))
    IN  IF s # <<>> /\ s[1] = "-" THEN Norm(-h, -l) ELSE Norm(h, l)

FloatSub(a, b) == Norm(a.hi - b.hi, a.lo - b.lo)

FloatAbs(a) == IF a.hi < 0 THEN Norm(-a.hi, -a.lo) ELSE a

FloatLeq(a, b) == a.hi < b.hi \/ (a.hi = b.hi /\ a.lo <= b.lo)

\* a variant of Round10 that leaves the value as it is
Round10Exact(a) == {a}

\* round(a, 10): the values it may return.  The 11th decimal decides; when it is
\* exactly 5 the binary value of the difference lies on either side of the tie.
Round10(a) ==
    LET d == a.lo % 10
        down == Norm(a.hi, a.lo - d)
        up == Norm(a.hi, a.lo - d + 10)
    IN  IF d < 5 THEN {down} ELSE IF d > 5 THEN {up} ELSE {down, up}

----------------------------------------------------------------------------
\* The evaluator, lines 129-139

\* limit: None, or an integer
NoLimit == [set |-> FALSE, v |-> 0]
Limit(n) == [set |-> TRUE, v |-> n]

\* result_dist: None, or a number
NoDist == [set |-> FALSE, v |-> Norm(0, 0)]
Dist(text) == [set |-> TRUE, v |-> Float(text)]

\* a variant of EvaluatorOf that tests the checker first
EvaluatorOfCheckerFirst(rd, chk) ==
    IF chk THEN "checker" ELSE IF rd.set THEN "numeric" ELSE "exact"

\* which branch of lines 129/132/138 decides
EvaluatorOf(rd, chk) ==
    IF rd.set THEN "numeric" ELSE IF chk THEN "checker" ELSE "exact"

\* a variant of NumericCorrect that leaves out abs()
NumericCorrectNoAbs(expected, actual, eps) ==
    { FloatLeq(r, eps) : r \in Round10(FloatSub(Float(expected), Float(actual))) }

\* line 131: the values is_correct may get
NumericCorrect(expected, actual, eps) ==
    { FloatLeq(r, eps) : r \in Round10(FloatAbs(FloatSub(Float(expected), Float(actual)))) }

\* line 137
CheckerCorrect(code) == code = 0

\* a variant of ExactCorrect that accepts an empty expected output whatever the flag
ExactCorrectAlwaysAny(ema, expected, actual) == expected = <<>> \/ expected = actual

\* line 139
ExactCorrect(ema, expected, actual) == (ema /\ expected = <<>>) \/ expected = actual

\* exit statuses of the checker (line 28-35)
CheckerCodes == {0, 1, 2}

\* line 135: the text that replaces outdata
StatusText(code) == <<"[", "[", Digits[code + 1], "]", "]">>

----------------------------------------------------------------------------
\* Ordering and truncation, lines 64-75

Range(s) == {s[i] : i \in 1..Len(s)}

Perms(S) == {p \in [1..Cardinality(S) -> S] : Range(p) = S}

\* characters in code point order
Alphabet ==
    <<"\n", " ", "+", "-", ".", "0", "1", "2", "3", "4", "5", "6", "7", "8", "9",
      "[", "]", "a", "i", "n", "o", "t", "u">>

Ord(c) == CHOOSE i \in 1..Len(Alphabet) : Alphabet[i] = c

\* str < str
RECURSIVE StrLess(_, _)
StrLess(a, b) ==
    IF b = <<>> THEN FALSE
    ELSE IF a = <<>> THEN TRUE
    ELSE IF Head(a) # Head(b) THEN Ord(Head(a)) < Ord(Head(b))
    ELSE StrLess(Tail(a), Tail(b))

\* length of the longest prefix of s made of digits (d) or of non-digits (~d)
RECURSIVE RunLen(_, _)
RunLen(s, d) ==
    IF s # <<>> /\ (IsDigit(Head(s)) <=> d) THEN 1 + RunLen(Tail(s), d) ELSE 0

\* [tryint(c) for c in re.split("([0-9]+)", f)]: texts at the odd places, integers
\* at the even ones
RECURSIVE NaturalKey(_)
NaturalKey(f) ==
    LET n == RunLen(f, FALSE)
        rest == SubSeq(f, n + 1, Len(f))
        m == RunLen(rest, TRUE)
    IN  IF rest = <<>> THEN << SubSeq(f, 1, n) >>
        ELSE << SubSeq(f, 1, n), DigitsToInt(SubSeq(rest, 1, m)) >>
             \o NaturalKey(SubSeq(rest, m + 1, Len(rest)))

\* list < list on two keys, from place i on
RECURSIVE KeyLessFrom(_, _, _)
KeyLessFrom(a, b, i) ==
    IF i > Len(b) THEN FALSE
    ELSE IF i > Len(a) THEN TRUE
    ELSE IF a[i] = b[i] THEN KeyLessFrom(a, b, i + 1)
    ELSE IF i % 2 = 1 THEN StrLess(a[i], b[i]) ELSE a[i] < b[i]

\* a variant of NaturalLess: the plain string order of files.sort()
NaturalLessPlain(f, g) == StrLess(f, g)

NaturalLess(f, g) == KeyLessFrom(NaturalKey(f), NaturalKey(g), 1)

SizeLess(sz, f, g) == sz[f] < sz[g]

\* the key order of line 67 (by_size) or line 72
SortLess(by_size, sz, f, g) == IF by_size THEN SizeLess(sz, f, g) ELSE NaturalLess(f, g)

\* x put behind every element that is not greater than it
RECURSIVE InsertSorted(_, _, _, _)
InsertSorted(x, s, by_size, sz) ==
    IF s = <<>> THEN <<x>>
    ELSE IF SortLess(by_size, sz, x, s[Len(s)])
         THEN Append(InsertSorted(x, SubSeq(s, 1, Len(s) - 1), by_size, sz), s[Len(s)])
         ELSE Append(s, x)

\* list.sort(key=...): stable
RECURSIVE StableSort(_, _, _)
StableSort(s, by_size, sz) ==
    IF s = <<>> THEN <<>>
    ELSE InsertSorted(s[Len(s)], StableSort(SubSeq(s, 1, Len(s) - 1), by_size, sz),
                      by_size, sz)

\* lines 64-72: the orders the files may be put in
Ordered(fs, shuf, by_size, natural, sz) ==
    IF shuf THEN Perms(Range(fs))
    ELSE IF by_size THEN {StableSort(fs, TRUE, sz)}
    ELSE IF natural THEN {StableSort(fs, FALSE, sz)}
    ELSE {fs}

\* a variant of SlicePrefix that keeps the last n elements, s[-n:]
SliceSuffix(s, n) ==
    IF n > 0 THEN SubSeq(s, IF n < Len(s) THEN Len(s) - n + 1 ELSE 1, Len(s)) ELSE s

\* s[:n]
SlicePrefix(s, n) ==
    IF n >= 0 THEN SubSeq(s, 1, IF n < Len(s) THEN n ELSE Len(s))
    ELSE SubSeq(s, 1, IF Len(s) + n > 0 THEN Len(s) + n ELSE 0)

\* line 73
LimitApplies(lim, n) == lim.set /\ n > lim.v

----------------------------------------------------------------------------
\* The state on entry to main, after lines 56-63

\* line 123: seconds after which a run is overtime
OvertimeLimit == 1

InFile(name) == name \o InSuffix

\* the first n names of the catalogue, as *.in files in the order glob lists them
GlobOrders(n) == Perms({InFile(Catalogue[i]) : i \in 1..n})

\* os.path.getsize of a .in file
SizeRange == {Len(t) : t \in InTexts}

\* shuffle, do_sort, natural_sort: a mutually exclusive group (lines 186-189)
OrderingFlags ==
    {fl \in [shuffle : BOOLEAN, do_sort : BOOLEAN, natural_sort : BOOLEAN] :
        /\ ~(fl.shuffle /\ fl.do_sort)
        /\ ~(fl.shuffle /\ fl.natural_sort)
        /\ ~(fl.do_sort /\ fl.natural_sort)}

LimitChoices == {NoLimit} \cup {Limit(n) : n \in -1..(MaxFiles + 1)}

DistChoices == {NoDist, Dist(<<"0">>)}

\* elapsed seconds of one subject run
TimeChoices == {0, 1, 2}

NoReport ==
    [signal |-> "none", ret |-> FALSE, correct |-> 0, total |-> 0, wrong |-> <<>>,
     overtime_count |-> 0, overtime |-> <<>>, times |-> <<>>]

Init ==
    /\ checker \in BOOLEAN
    /\ result_dist \in DistChoices
    /\ empty_means_any \in BOOLEAN
    /\ timer \in BOOLEAN
    /\ \/ \* lines 57-59, single-file mode
          /\ files = <<InFile(Catalogue[1])>>
          /\ approx_total = 1
          /\ in_exists \in BOOLEAN
       \/ \* lines 61-63, directory mode
          /\ \E n \in 0..MaxFiles : files \in GlobOrders(n)
          /\ approx_total = Len(files)
          /\ in_exists = TRUE
    /\ total = 0 /\ correct = 0 /\ overtime_count = 0
    /\ wrong = <<>> /\ overtime = <<>> /\ times = <<>>
    /\ idx = 1
    /\ file = <<>> /\ out_present = FALSE
    /\ indata = <<>> /\ outdata = <<>> /\ out = <<>>
    /\ time_taken = 0 /\ is_correct = FALSE
    /\ pc = "order" /\ raised = "none" /\ interrupted = "no"
    /\ errors = <<>> /\ calls = <<>> /\ report = NoReport

\* directory mode (lines 61-63) on a directory holding any MaxNames of the
\* catalogue's names, listed in any order, with the default configuration
SortInit ==
    /\ checker = FALSE /\ result_dist = NoDist
    /\ empty_means_any = FALSE /\ timer = FALSE
    /\ \E S \in SUBSET (1..Len(Catalogue)) :
          /\ Cardinality(S) <= MaxNames
          /\ files \in Perms({InFile(Catalogue[i]) : i \in S})
    /\ approx_total = Len(files)
    /\ in_exists = TRUE
    /\ total = 0 /\ correct = 0 /\ overtime_count = 0
    /\ wrong = <<>> /\ overtime = <<>> /\ times = <<>>
    /\ idx = 1
    /\ file = <<>> /\ out_present = FALSE
    /\ indata = <<>> /\ outdata = <<>> /\ out = <<>>
    /\ time_taken = 0 /\ is_correct = FALSE
    /\ pc = "order" /\ raised = "none" /\ interrupted = "no"
    /\ errors = <<>> /\ calls = <<>> /\ report = NoReport

\* trimmed texts of an expected output and of a subject's output in numeric mode
NumberTexts ==
    { <<"1", ".", "0", "0", "0", "0", "0", "0", "0", "0", "0", "0", "1">>,
      <<"1", ".", "0">>,
      <<"3", ".", "1", "4", "1", "5", "9">>,
      <<"3", ".", "1", "4">>,
      <<"5">>,
      <<"5", ".">>,
      <<"-", "1">>,
      <<"0", ".", "0", "0", "0", "0", "0", "0", "0", "0", "0", "0", "5">>,
      <<"a">>,
      <<>> }

\* values of --result_dist
EpsilonTexts == { <<"0">>, <<"0", ".", "0", "1">>, <<"0", ".", "0", "0", "1">> }

\* single-file mode with a tolerance, at line 129 of the only case: the input
\* was read, the subject returned within the second
EvalInit ==
    /\ checker = FALSE
    /\ \E e \in EpsilonTexts : result_dist = Dist(e)
    /\ empty_means_any \in BOOLEAN
    /\ timer = FALSE
    /\ in_exists = TRUE
    /\ files = <<InFile(Catalogue[1])>>
    /\ approx_total = 1
    /\ total = 0 /\ correct = 0 /\ overtime_count = 0
    /\ wrong = <<>> /\ overtime = <<>> /\ times = <<>>
    /\ idx = 2
    /\ file = files[1] /\ out_present = TRUE
    /\ indata = <<"5">>
    /\ outdata \in NumberTexts
    /\ out \in NumberTexts
    /\ time_taken = 0 /\ is_correct = FALSE
    /\ pc = "evaluate" /\ raised = "none" /\ interrupted = "no"
    /\ errors = <<>>
    /\ calls = << <<"app", DropLast3(files[1])>> >>
    /\ report = NoReport

----------------------------------------------------------------------------
\* Steps of main

\* the locals of one iteration are dead once it ends: every one is assigned again
\* before it is read (lines 90-95, 103/105, 114, 131-139)
ClearLocals ==
    /\ file' = <<>> /\ out_present' = FALSE
    /\ indata' = <<>> /\ outdata' = <<>> /\ out' = <<>>
    /\ time_taken' = 0 /\ is_correct' = FALSE

\* an exception leaves main: nothing after it runs
Raise(exc) ==
    /\ pc' = "aborted"
    /\ raised' = exc

\* line 90
test_name == DropLast3(file)

\* lines 64-72.  The sizes sz are those os.path.getsize returns; the loop reads
\* only trimmed contents, and any trimmed content can have any size but 0.
OrderWith(fl, sz) ==
    /\ pc = "order"
    /\ IF ~fl.shuffle /\ fl.do_sort /\ ~in_exists
       THEN \* os.path.getsize of a file that is not there
            /\ Raise("FileNotFoundError")
            /\ UNCHANGED files
       ELSE /\ files' \in Ordered(files, fl.shuffle, fl.do_sort, fl.natural_sort, sz)
            /\ pc' = "limit"
            /\ UNCHANGED raised
    /\ UNCHANGED <<config, approx_total, stats, idx, locals, interrupted, errors,
                   calls, report>>

Order ==
    /\ pc = "order"
    /\ \E fl \in OrderingFlags, sz \in [Range(files) -> SizeRange] : OrderWith(fl, sz)

\* lines 68-72: main called with natural_sort alone
NaturalFlags == [shuffle |-> FALSE, do_sort |-> FALSE, natural_sort |-> TRUE]

NaturalOrder ==
    /\ pc = "order"
    /\ OrderWith(NaturalFlags, [f \in Range(files) |-> 1])

\* lines 73-81
TruncateWith(lim) ==
    /\ pc = "limit"
    /\ IF LimitApplies(lim, approx_total)
       THEN /\ files' = SlicePrefix(files, lim.v)
            /\ approx_total' = lim.v
       ELSE UNCHANGED <<files, approx_total>>
    /\ total' = 0 /\ correct' = 0 /\ overtime_count' = 0
    /\ wrong' = <<>> /\ overtime' = <<>> /\ times' = <<>>
    /\ pc' = "loop"
    /\ UNCHANGED <<config, idx, locals, raised, interrupted, errors, calls, report>>

Truncate ==
    /\ pc = "limit"
    /\ \E lim \in LimitChoices : TruncateWith(lim)

\* line 89, the sequence is exhausted
LoopEnd ==
    /\ pc = "loop"
    /\ idx > Len(files)
    /\ pc' = "report"
    /\ UNCHANGED <<config, files, approx_total, stats, idx, locals, raised,
                   interrupted, errors, calls, report>>


\* a variant of NextCase that starts every case with an empty failing list
NextCaseClearsWrong ==
    /\ pc = "loop"
    /\ idx <= Len(files)
    /\ file' = files[idx]
    /\ idx' = idx + 1
    /\ out_present' \in BOOLEAN
    /\ wrong' = <<>>
    /\ IF approx_total = 0
       THEN Raise("ZeroDivisionError")
       ELSE pc' = "read_in" /\ UNCHANGED raised
    /\ UNCHANGED <<config, files, approx_total, total, correct, overtime_count,
                   overtime, times, indata, outdata, out,
                   time_taken, is_correct, interrupted, errors, calls, report>>

\* lines 89-94: the next file, and the progress line with its division.
\* out_present is whether outfile is in all_files (line 61), drawn here.
NextCase ==
    /\ pc = "loop"
    /\ idx <= Len(files)
    /\ file' = files[idx]
    /\ idx' = idx + 1
    /\ out_present' \in BOOLEAN
    /\ IF approx_total = 0
       THEN Raise("ZeroDivisionError")
       ELSE pc' = "read_in" /\ UNCHANGED raised
    /\ UNCHANGED <<config, files, approx_total, stats, indata, outdata, out,
                   time_taken, is_correct, interrupted, errors, calls, report>>

\* line 95
ReadInput ==
    /\ pc = "read_in"
    /\ IF ~in_exists
       THEN Raise("FileNotFoundError") /\ UNCHANGED indata
       ELSE /\ \E raw \in InTexts : indata' = Strip(raw)
            /\ pc' = "read_out"
            /\ UNCHANGED raised
    /\ UNCHANGED <<config, files, approx_total, stats, idx, file, out_present,
                   outdata, out, time_taken, is_correct, interrupted, errors, calls,
                   report>>

\* a variant of StrictOut that also asks for no numeric tolerance
StrictOutUnlessDist(ema, chk, rd) == ~ema /\ ~chk /\ ~rd.set

\* line 97: a missing .out file is an error
StrictOut(ema, chk, rd) == ~ema /\ ~chk

\* lines 96-101: the .out file is missing and that is an error
MissingOutError ==
    /\ pc = "read_out"
    /\ ~out_present
    /\ StrictOut(empty_means_any, checker, result_dist)
    /\ errors' = Append(errors, <<"missing_out", file>>)
    /\ approx_total' = approx_total - 1
    /\ pc' = "loop"
    /\ ClearLocals
    /\ UNCHANGED <<config, files, stats, idx, raised, interrupted, calls, report>>

\* lines 96-97, 102-103: the .out file is missing and that is no error
MissingOutEmpty ==
    /\ pc = "read_out"
    /\ ~out_present
    /\ ~StrictOut(empty_means_any, checker, result_dist)
    /\ outdata' = <<>>
    /\ pc' = "check_in"
    /\ UNCHANGED <<config, files, approx_total, stats, idx, file, out_present,
                   indata, out, time_taken, is_correct, raised, interrupted, errors,
                   calls, report>>

\* lines 96, 104-105: the .out file is there
ReadExpected ==
    /\ pc = "read_out"
    /\ out_present
    /\ \E raw \in ExpectedTexts : outdata' = Strip(raw)
    /\ pc' = "check_in"
    /\ UNCHANGED <<config, files, approx_total, stats, idx, file, out_present,
                   indata, out, time_taken, is_correct, raised, interrupted, errors,
                   calls, report>>

\* a variant of EmptyInputError that leaves approx_total alone
EmptyInputErrorNoDecrement ==
    /\ pc = "check_in"
    /\ indata = <<>>
    /\ errors' = Append(errors, <<"empty_in", file>>)
    /\ pc' = "loop"
    /\ ClearLocals
    /\ UNCHANGED <<config, files, approx_total, stats, idx, raised, interrupted, calls,
                   report>>

\* lines 106-110
EmptyInputError ==
    /\ pc = "check_in"
    /\ indata = <<>>
    /\ errors' = Append(errors, <<"empty_in", file>>)
    /\ approx_total' = approx_total - 1
    /\ pc' = "loop"
    /\ ClearLocals
    /\ UNCHANGED <<config, files, stats, idx, raised, interrupted, calls, report>>

\* lines 106, 111-112: the input is not empty
InputOk ==
    /\ pc = "check_in"
    /\ indata # <<>>
    /\ pc' = "invoke"
    /\ UNCHANGED <<config, files, approx_total, stats, idx, locals, raised,
                   interrupted, errors, calls, report>>

\* lines 113-115, no exception
InvokeReturns ==
    /\ pc = "invoke"
    /\ \E raw \in OutTexts : out' = Strip(raw)
    /\ time_taken' \in TimeChoices
    /\ calls' = Append(calls, <<"app", test_name>>)
    /\ pc' = "overtime_count"
    /\ UNCHANGED <<config, files, approx_total, stats, idx, file, out_present,
                   indata, outdata, is_correct, raised, interrupted, errors, report>>

\* a variant of InvokeRaises that takes the case out of the pool as a discovery
\* error does
InvokeRaisesDecrements ==
    /\ pc = "invoke"
    /\ calls' = Append(calls, <<"app", test_name>>)
    /\ errors' = Append(errors, <<"exception", test_name>>)
    /\ approx_total' = approx_total - 1
    /\ pc' = "loop"
    /\ ClearLocals
    /\ UNCHANGED <<config, files, stats, idx, raised, interrupted, report>>

\* lines 113-119, the invocation raises an Exception
InvokeRaises ==
    /\ pc = "invoke"
    /\ calls' = Append(calls, <<"app", test_name>>)
    /\ errors' = Append(errors, <<"exception", test_name>>)
    /\ pc' = "loop"
    /\ ClearLocals
    /\ UNCHANGED <<config, files, approx_total, stats, idx, raised, interrupted, report>>

\* a variant of IsOvertime that counts a run of exactly the limit
IsOvertimeInclusive(t) == t >= OvertimeLimit

\* line 123
IsOvertime(t) == t > OvertimeLimit

\* lines 121-124
CountOvertime ==
    /\ pc = "overtime_count"
    /\ IF IsOvertime(time_taken)
       THEN overtime_count' = overtime_count + 1 /\ pc' = "overtime_append"
       ELSE UNCHANGED overtime_count /\ pc' = "timer"
    /\ UNCHANGED <<config, files, approx_total, total, correct, wrong, overtime, times,
                   idx, locals, raised, interrupted, errors, calls, report>>

\* line 125
AppendOvertime ==
    /\ pc = "overtime_append"
    /\ overtime' = Append(overtime, test_name)
    /\ pc' = "timer"
    /\ UNCHANGED <<config, files, approx_total, total, correct, overtime_count, wrong,
                   times, idx, locals, raised, interrupted, errors, calls, report>>

\* lines 126-128
RecordTime ==
    /\ pc = "timer"
    /\ times' = IF timer THEN Append(times, time_taken) ELSE times
    /\ pc' = "evaluate"
    /\ UNCHANGED <<config, files, approx_total, total, correct, overtime_count, wrong,
                   overtime, idx, locals, raised, interrupted, errors, calls, report>>

\* lines 129-131
EvaluateNumeric ==
    /\ pc = "evaluate"
    /\ EvaluatorOf(result_dist, checker) = "numeric"
    /\ IF FloatFails(outdata) \/ FloatFails(out)
       THEN Raise("ValueError") /\ UNCHANGED is_correct
       ELSE /\ is_correct' \in NumericCorrect(outdata, out, result_dist.v)
            /\ pc' = "tally"
            /\ UNCHANGED raised
    /\ UNCHANGED <<config, files, approx_total, stats, idx, file, out_present, indata,
                   outdata, out, time_taken, interrupted, errors, calls, report>>

\* lines 132-137
EvaluateChecker ==
    /\ pc = "evaluate"
    /\ EvaluatorOf(result_dist, checker) = "checker"
    /\ \E code \in CheckerCodes :
          /\ outdata' = StatusText(code)
          /\ is_correct' = CheckerCorrect(code)
    /\ calls' = Append(calls, <<"checker", test_name>>)
    /\ pc' = "tally"
    /\ UNCHANGED <<config, files, approx_total, stats, idx, file, out_present, indata,
                   out, time_taken, raised, interrupted, errors, report>>

\* lines 138-139
EvaluateExact ==
    /\ pc = "evaluate"
    /\ EvaluatorOf(result_dist, checker) = "exact"
    /\ is_correct' = ExactCorrect(empty_means_any, outdata, out)
    /\ pc' = "tally"
    /\ UNCHANGED <<config, files, approx_total, stats, idx, file, out_present, indata,
                   outdata, out, time_taken, raised, interrupted, errors, calls, report>>

\* lines 140-146
Tally ==
    /\ pc = "tally"
    /\ IF is_correct
       THEN correct' = correct + 1 /\ UNCHANGED wrong
       ELSE wrong' = Append(wrong, test_name) /\ UNCHANGED correct
    /\ pc' = "count"
    /\ UNCHANGED <<config, files, approx_total, total, overtime_count, overtime, times,
                   idx, locals, raised, interrupted, errors, calls, report>>

\* a variant of CountTotal that counts only the cases judged incorrect
CountTotalWrongOnly ==
    /\ pc = "count"
    /\ total' = IF is_correct THEN total ELSE total + 1
    /\ pc' = "loop"
    /\ ClearLocals
    /\ UNCHANGED <<config, files, approx_total, correct, overtime_count, wrong,
                   overtime, times, idx, raised, interrupted, errors, calls, report>>

\* line 147
CountTotal ==
    /\ pc = "count"
    /\ total' = total + 1
    /\ pc' = "loop"
    /\ ClearLocals
    /\ UNCHANGED <<config, files, approx_total, correct, overtime_count, wrong,
                   overtime, times, idx, raised, interrupted, errors, calls, report>>

\* the positions inside the try statement of lines 82-147
InTry ==
    {"loop", "read_in", "read_out", "check_in", "invoke", "overtime_count",
     "overtime_append", "timer", "evaluate", "tally", "count"}

\* a variant of Interrupt in which line 116 catches everything: the interrupt of
\* an invocation is reported as its error and the loop goes on
InterruptCaughtAtInvoke ==
    /\ pc \in InTry
    /\ interrupted' = pc
    /\ IF pc = "invoke"
       THEN /\ errors' = Append(errors, <<"exception", test_name>>)
            /\ pc' = "loop"
       ELSE /\ pc' = "report"
            /\ UNCHANGED errors
    /\ ClearLocals
    /\ UNCHANGED <<config, files, approx_total, stats, idx, raised, calls, report>>

\* lines 148-150: KeyboardInterrupt arrives inside the try statement; it is no
\* Exception, so line 116 does not catch it.  Nothing reads the locals of the
\* iteration afterwards.
Interrupt ==
    /\ pc \in InTry
    /\ interrupted' = pc
    /\ pc' = "report"
    /\ ClearLocals
    /\ UNCHANGED <<config, files, approx_total, stats, idx, raised, errors, calls,
                   report>>

\* line 163
Nonzero(t) == t # 0

\* a variant of Report that tests correct, not total, in line 152
ReportTestsCorrect ==
    /\ pc = "report"
    /\ report' =
         IF correct = 0
         THEN [NoReport EXCEPT !.signal = "no_tests", !.ret = FALSE]
         ELSE [signal |-> "summary", ret |-> TRUE, correct |-> correct, total |-> total,
               wrong |-> wrong,
               overtime_count |-> IF overtime # <<>> THEN overtime_count ELSE 0,
               overtime |-> overtime,
               times |-> IF timer THEN SelectSeq(times, Nonzero) ELSE <<>>]
    /\ pc' = "done"
    /\ UNCHANGED <<config, files, approx_total, stats, idx, locals, raised,
                   interrupted, errors, calls>>

\* lines 151-164
Report ==
    /\ pc = "report"
    /\ report' =
         IF total = 0
         THEN [NoReport EXCEPT !.signal = "no_tests", !.ret = FALSE]
         ELSE [signal |-> "summary", ret |-> TRUE, correct |-> correct, total |-> total,
               wrong |-> wrong,
               overtime_count |-> IF overtime # <<>> THEN overtime_count ELSE 0,
               overtime |-> overtime,
               times |-> IF timer THEN SelectSeq(times, Nonzero) ELSE <<>>]
    /\ pc' = "done"
    /\ UNCHANGED <<config, files, approx_total, stats, idx, locals, raised,
                   interrupted, errors, calls>>

Next ==
    \/ Order \/ Truncate \/ LoopEnd \/ NextCase \/ ReadInput
    \/ MissingOutError \/ MissingOutEmpty \/ ReadExpected
    \/ EmptyInputError \/ InputOk \/ InvokeReturns \/ InvokeRaises
    \/ CountOvertime \/ AppendOvertime \/ RecordTime
    \/ EvaluateNumeric \/ EvaluateChecker \/ EvaluateExact
    \/ Tally \/ CountTotal \/ Interrupt \/ Report

Spec == Init /\ [][Next]_vars

\* lines 61-81 under natural ordering: the listing is sorted, then cut to the limit
SortNext == NaturalOrder \/ Truncate

SortSpec == SortInit /\ [][SortNext]_vars

\* lines 129-164 of a run whose only case is judged by the tolerance
EvalNext == EvaluateNumeric \/ Tally \/ CountTotal \/ LoopEnd \/ Report

EvalSpec == EvalInit /\ [][EvalNext]_vars

----------------------------------------------------------------------------
\* Properties

Cancelled == interrupted # "no"

\* the [Error] lines of one kind
ErrorsOf(kind) == {i \in DOMAIN errors : errors[i][1] = kind}

\* the runs of the subject (kind "app") or of the checker (kind "checker")
CallsOf(kind) == {i \in DOMAIN calls : calls[i][1] = kind}

\* C1: at the terminal report of a run that was not cancelled,
\* total = correct + len(wrong), and total is the number of subject runs that
\* returned: each was counted once, as correct or as failing.
C1_TotalIsCorrectPlusWrong ==
    (pc \in {"report", "done"} /\ ~Cancelled) =>
        /\ total = correct + Len(wrong)
        /\ total = Cardinality(CallsOf("app")) - Cardinality(ErrorsOf("exception"))

C1_Witness ==
    /\ pc = "done" /\ ~Cancelled
    /\ correct = 1 /\ Len(wrong) = 1 /\ report.signal = "summary"

\* C2: no per-case error aborts main; in particular the evaluation error of the
\* numeric-tolerance mode (a text that float() rejects) never leaves main.
C2_EvaluationErrorRecovered == raised # "ValueError"

\* C3: a run that has entered the test loop and started a case does not end
\* without the terminal report: main is never left by an exception then.
C3_LoopReachesReport == pc = "aborted" => idx = 1

\* C4: an interrupt at an iteration boundary or during the subject's invocation
\* goes to the terminal report with no exception leaving main, no [Error] line, no
\* further case or process started and the statistics untouched; the report step
\* then prints exactly these statistics.
C4_InterruptStep ==
    /\ (interrupted = "no" /\ interrupted' \in {"loop", "invoke"}) =>
          /\ pc' = "report" /\ raised' = "none"
          /\ UNCHANGED <<stats, approx_total, idx, errors, calls>>
    /\ (pc = "report" /\ interrupted \in {"loop", "invoke"}) =>
          /\ pc' = "done" /\ raised' = "none"
          /\ UNCHANGED <<stats, approx_total, idx, errors, calls>>
          /\ report'.signal = IF total = 0 THEN "no_tests" ELSE "summary"
          /\ total > 0 =>
                /\ report'.total = total /\ report'.correct = correct
                /\ report'.wrong = wrong /\ report'.overtime = overtime

\* C4: every step of main is such a step.
C4_InterruptKeepsStatistics == [][C4_InterruptStep]_vars

C4_Witness ==
    /\ pc = "done" /\ interrupted = "invoke"
    /\ total = 1 /\ report.signal = "summary" /\ report.total = 1
    /\ Cardinality(CallsOf("app")) = 1 /\ errors = <<>>

\* C5: the no-tests signal and the result False are given exactly when total is 0
\* at report time, so for every run without a discovered case; otherwise the
\* summary "Correct c out of total" and the result True, even when c is 0.
C5_NoTestsIffTotalZero ==
    pc = "done" =>
        /\ (report.signal = "no_tests" /\ ~report.ret) <=> total = 0
        /\ (report.signal = "summary" /\ report.ret) <=> total >= 1
        /\ total >= 1 => report.correct = correct /\ report.total = total
        /\ Len(files) = 0 => report.signal = "no_tests"

C5_Witness ==
    /\ pc = "done" /\ total = 2 /\ correct = 0
    /\ report.signal = "summary" /\ report.ret /\ report.correct = 0

\* what a step does with a case whose .out file is absent, given whether the
\* configuration is strict: an error and a skip, or an empty expected output
C6_Step(strict) ==
    (pc = "read_out" /\ ~out_present /\ pc' # "report") =>
        IF strict
        THEN /\ errors' = Append(errors, <<"missing_out", file>>)
             /\ pc' = "loop"
             /\ UNCHANGED <<stats, calls>>
        ELSE /\ errors' = errors
             /\ pc' = "check_in"
             /\ outdata' = <<>>
             /\ UNCHANGED <<stats, approx_total>>

\* C6 as claimed: the absent .out file is an error iff there is no checker, no
\* numeric tolerance and empty-means-any is off.
C6_Original ==
    [][C6_Step(~checker /\ ~result_dist.set /\ ~empty_means_any)]_vars

\* C6 amended: the absent .out file is an error iff there is no checker and
\* empty-means-any is off, whatever the numeric tolerance; otherwise the expected
\* output is empty and the case goes on.
C6_MissingOutStrictIffNoCheckerNoEma ==
    [][C6_Step(~checker /\ ~empty_means_any)]_vars

C6_Witness ==
    /\ result_dist.set /\ ~checker /\ ~empty_means_any
    /\ pc = "loop" /\ idx = 2
    /\ errors = << <<"missing_out", files[1]>> >>
    /\ total = 0 /\ calls = <<>>

\* C7: a case whose trimmed input is empty ends in one step that prints one
\* [Error] line and takes one from approx_total; no statistic changes and no
\* process is run, whether the .out file is there or not.
C7_Step ==
    (indata = <<>> /\ pc \in {"read_out", "check_in"} /\ pc' # "report") =>
        /\ UNCHANGED <<stats, calls>>
        /\ \/ /\ pc' = "loop"
              /\ Len(errors') = Len(errors) + 1
              /\ approx_total' = approx_total - 1
           \/ /\ pc = "read_out" /\ pc' = "check_in"
              /\ UNCHANGED <<errors, approx_total, indata>>

\* C7: every step of main treats a case with an empty input so.
C7_EmptyInputSkipped == [][C7_Step]_vars

C7_Witness ==
    /\ pc = "loop" /\ idx = 2 /\ Len(files) = 2
    /\ errors = << <<"empty_in", files[1]>> >>
    /\ approx_total = 1 /\ total = 0 /\ calls = <<>>

\* C8: the step in which the subject's invocation raises changes no statistic
\* and not approx_total, and goes back to the head of the loop for the next case.
C8_Step ==
    (pc = "invoke" /\ Len(errors') = Len(errors) + 1) =>
        /\ errors' = Append(errors, <<"exception", test_name>>)
        /\ UNCHANGED <<stats, approx_total, idx, files>>
        /\ pc' = "loop" /\ raised' = "none"

\* C8: every step of main treats a raising invocation so.
C8_InvocationErrorExcluded == [][C8_Step]_vars

C8_Witness ==
    /\ pc = "done" /\ ~Cancelled /\ Len(files) = 2
    /\ errors = << <<"exception", DropLast3(files[1])>> >>
    /\ total = 1 /\ approx_total = 2

\* the states between two cases, and the report of a run not cut inside a case
C9_CaseFinished ==
    pc = "loop" \/ (pc \in {"report", "done"} /\ interrupted \in {"no", "loop"})

\* C9: when a case has finished, overtime_count = len(overtime), and (the timer
\* recording every elapsed time) it is the number of runs that took more than one
\* second, whatever the verdicts were.
C9_OvertimeIffOverOneSecond ==
    C9_CaseFinished =>
        /\ overtime_count = Len(overtime)
        /\ timer => overtime_count = Cardinality({i \in DOMAIN times : times[i] > 1})

C9_Witness ==
    /\ pc = "done" /\ ~Cancelled /\ timer
    /\ times = <<2, 1>> /\ overtime_count = 1 /\ Len(overtime) = 1
    /\ correct = 1 /\ Len(wrong) = 1 /\ overtime = wrong

\* C10: the evaluation step is decided by the numeric tolerance when there is
\* one, and then no checker is run; else by the checker's exit status alone; else
\* by the exact / empty-means-any comparison.
C10_Step ==
    /\ (pc = "evaluate" /\ pc' = "tally") =>
          IF result_dist.set
          THEN /\ calls' = calls
               /\ is_correct' \in NumericCorrect(outdata, out, result_dist.v)
          ELSE IF checker
          THEN /\ calls' = Append(calls, <<"checker", test_name>>)
               /\ \E code \in CheckerCodes :
                     outdata' = StatusText(code) /\ (is_correct' <=> code = 0)
          ELSE /\ calls' = calls
               /\ is_correct' <=> ((empty_means_any /\ outdata = <<>>) \/ outdata = out)
    /\ result_dist.set => \A i \in DOMAIN calls' : calls'[i][1] # "checker"

\* C10: every evaluation step of main follows this precedence.
C10_EvaluatorPrecedence == [][C10_Step]_vars

C10_Witness ==
    /\ result_dist.set /\ checker
    /\ pc = "tally" /\ ~is_correct
    /\ outdata = <<"5">> /\ out = <<"6">>

\* what the step of lines 140-146 does when no tolerance and no checker is
\* configured: the case is counted correct iff the expected output is empty or
\* absent and empty-means-any is on, or the trimmed texts are equal
C11_Step ==
    (pc = "tally" /\ pc' = "count" /\ ~result_dist.set /\ ~checker) =>
        LET accepted ==
                IF empty_means_any
                THEN ~out_present \/ outdata = <<>> \/ outdata = out
                ELSE outdata = out
        IN  /\ accepted => correct' = correct + 1 /\ wrong' = wrong
            /\ ~accepted => correct' = correct /\ wrong' = Append(wrong, test_name)

\* C11: with no tolerance and no checker every tally step counts the case by the
\* exact / empty-means-any rule; with empty-means-any on and no .out file it is
\* correct whatever the subject printed.
C11_ExactOrEmptyMeansAny == [][C11_Step]_vars

C11_Witness ==
    /\ ~result_dist.set /\ ~checker /\ empty_means_any
    /\ pc = "count" /\ ~out_present /\ out = <<"a">>
    /\ correct = 1 /\ wrong = <<>>

\* what the step of lines 73-75 does for the limit lim
C12_Step(lim) ==
    TruncateWith(lim) =>
        IF lim.set /\ 0 <= lim.v /\ lim.v < Len(files)
        THEN /\ files' = [i \in 1..lim.v |-> files[i]]
             /\ approx_total' = lim.v
        ELSE (~lim.set \/ lim.v >= Len(files)) =>
                 files' = files /\ approx_total' = approx_total

\* C12: a limit N with 0 <= N < number of cases leaves the first N cases of the
\* ordered sequence, in order, and approx_total = N; no limit, or N not below the
\* number of cases, leaves every case.
C12_LimitKeepsFirstN == [][\A lim \in LimitChoices : C12_Step(lim)]_vars

C12_Witness ==
    /\ pc = "loop" /\ idx = 1
    /\ files = <<InFile(Catalogue[2])>> /\ approx_total = 1

\* the three names of the example, as main lists them
C13_T1 == InFile(<<"t", "1">>)
C13_T2 == InFile(<<"t", "2">>)
C13_T10 == InFile(<<"t", "1", "0">>)

\* what the natural ordering of lines 68-72 does to the listing
C13_Step ==
    NaturalOrder =>
        /\ Len(files') = Len(files)
        /\ \A f \in Range(files) :
               Cardinality({i \in 1..Len(files) : files[i] = f})
                   = Cardinality({i \in 1..Len(files') : files'[i] = f})
        /\ \A i \in 1..(Len(files') - 1) : ~NaturalLess(files'[i + 1], files'[i])
        /\ Range(files) = {C13_T1, C13_T2, C13_T10} => files' = <<C13_T1, C13_T2, C13_T10>>
        /\ \A i, j \in 1..Len(files') :
               (files'[i] = C13_T2 /\ files'[j] = C13_T10) => i < j

\* C13: natural ordering compares digit runs as integers and the other runs as
\* strings, so t2, t10, t1 come out as t1, t2, t10 (t2 before t10 in any
\* listing), and the result is a permutation of the discovered cases.
C13_NaturalOrderIsNumericPermutation == [][C13_Step]_vars

C13_Witness ==
    /\ pc = "limit"
    /\ files = <<C13_T1, C13_T2, C13_T10>>

C14_Expected == <<"1", ".", "0", "0", "0", "0", "0", "0", "0", "0", "0", "0", "1">>
C14_Actual == <<"1", ".", "0">>

\* expected 1.00000000001, actual 1.0 and tolerance 0 have been tallied
C14_Case ==
    /\ pc = "count"
    /\ result_dist = Dist(<<"0">>)
    /\ outdata = C14_Expected /\ out = C14_Actual

\* C14 as stated: expected 1.00000000001 against actual 1.0 with tolerance 0 is
\* judged incorrect and its name is put on the failing list.
C14_Original == C14_Case => (correct = 0 /\ wrong = <<test_name>>)

\* C14, amended: expected 1.00000000001 against actual 1.0 with tolerance 0 is
\* judged correct, the difference 1e-11 being 0 when rounded to 10 decimals; the
\* failing list stays empty.
C14_ElevenDecimalsRoundToEqual == C14_Case => (correct = 1 /\ wrong = <<>>)

C14_Witness == C14_Case /\ correct = 1

\* the rounded differences of the case being judged
C15_Rounded == Round10(FloatAbs(FloatSub(Float(outdata), Float(out))))

\* C15: in numeric mode a case whose texts both parse is counted correct iff
\* |expected - actual| rounded to 10 decimals is <= epsilon: 3.14159 against 3.14
\* is correct for 0.01 and incorrect for 0.001, and 5 against 5. is correct for
\* every epsilon although the texts differ.
C15_NumericToleranceDecides ==
    (pc = "count" /\ result_dist.set) =>
        /\ correct = 1 => (wrong = <<>> /\ \E r \in C15_Rounded : FloatLeq(r, result_dist.v))
        /\ correct = 0 =>
               (wrong = <<test_name>> /\ \E r \in C15_Rounded : ~FloatLeq(r, result_dist.v))
        /\ correct \in {0, 1}
        /\ ( /\ {outdata, out} = {<<"3", ".", "1", "4", "1", "5", "9">>, <<"3", ".", "1", "4">>}
             /\ outdata # out )
           => (correct = 1 <=> result_dist = Dist(<<"0", ".", "0", "1">>))
        /\ {outdata, out} = {<<"5">>, <<"5", ".">>} => correct = 1

C15_Witness ==
    /\ pc = "count" /\ result_dist = Dist(<<"0", ".", "0", "1">>)
    /\ outdata = <<"3", ".", "1", "4", "1", "5", "9">> /\ out = <<"3", ".", "1", "4">>
    /\ correct = 1

\* how many times the case f ended as a discovery error, as an invocation error,
\* as an evaluated case judged incorrect
C16_DiscoveryErrored(f) ==
    Cardinality({i \in 1..Len(errors) :
                    errors[i] \in {<<"missing_out", f>>, <<"empty_in", f>>}})
C16_InvocationErrored(f) ==
    Cardinality({i \in 1..Len(errors) : errors[i] = <<"exception", DropLast3(f)>>})
C16_Incorrect(f) == Cardinality({i \in 1..Len(wrong) : wrong[i] = DropLast3(f)})

C16_NoDuplicates(s) == \A i, j \in 1..Len(s) : s[i] = s[j] => i = j

\* the selected cases have each one terminal outcome: at most one of the three
\* recorded by name, and the cases with none of them are the ones counted correct
C16_OneOutcomeEach ==
    /\ \A f \in Range(files) :
           C16_DiscoveryErrored(f) + C16_InvocationErrored(f) + C16_Incorrect(f) <= 1
    /\ correct = Cardinality({f \in Range(files) :
           C16_DiscoveryErrored(f) + C16_InvocationErrored(f) + C16_Incorrect(f) = 0})
    /\ C16_NoDuplicates(wrong) /\ C16_NoDuplicates(overtime)

\* C16: when a run that was not cancelled has ended, after entering the loop,
\* every selected case has been processed once and has exactly one terminal
\* outcome; no name is twice on the failing or on the overtime list.
C16_EveryCaseOneOutcome ==
    (~Cancelled /\ (pc = "done" \/ (pc = "aborted" /\ idx > 1))) => C16_OneOutcomeEach

\* t is s, or s with one element appended
C17_Extended(s, t) == Len(t) \in {Len(s), Len(s) + 1} /\ SubSeq(t, 1, Len(s)) = s

\* one step of main: no counter goes down or up by more than one, no list loses
\* or changes an element, and none has grown more often than cases were started
C17_Step ==
    /\ total' \in {total, total + 1}
    /\ correct' \in {correct, correct + 1}
    /\ overtime_count' \in {overtime_count, overtime_count + 1}
    /\ C17_Extended(wrong, wrong')
    /\ C17_Extended(overtime, overtime')
    /\ C17_Extended(times, times')
    /\ total' <= idx' - 1 /\ correct' <= idx' - 1 /\ overtime_count' <= idx' - 1
    /\ Len(wrong') <= idx' - 1 /\ Len(overtime') <= idx' - 1 /\ Len(times') <= idx' - 1

\* C17: total, correct and overtime_count never decrease and grow by at most one
\* per case; the failing, overtime and timing lists are only appended to; no
\* step resets any of them.
C17_StatisticsOnlyGrow == [][C17_Step]_vars

C17_Witness ==
    /\ pc = "done" /\ total = 2 /\ correct = 1
    /\ Len(wrong) = 1 /\ overtime_count = 2 /\ Len(overtime) = 2 /\ Len(times) = 2

\* C18: at the end of a run that was not cancelled, approx_total - total is the
\* number of cases whose invocation raised, every discovery error having taken
\* one from approx_total and no invocation error any.
C18_ApproxMinusTotalIsInvocationErrors ==
    (pc = "done" /\ ~Cancelled) => approx_total - total = Cardinality(ErrorsOf("exception"))

\* C19: whenever a case is started, approx_total >= 1 and total <= approx_total,
\* so the progress line divides by no zero and shows a share between 0 and 1,
\* whatever the directory, the errors and the limit.
C19_ProgressWellDefined ==
    /\ (pc = "loop" /\ idx <= Len(files)) => (approx_total >= 1 /\ total <= approx_total)
    /\ raised # "ZeroDivisionError"

\* C20: the statistics the report reads are consistent, also after an interrupt
\* at any point of the loop: correct + len(wrong) = total, correct <= total and
\* overtime_count <= total.
C20_ReportSeesConsistentStatistics ==
    pc \in {"report", "done"} =>
        /\ correct + Len(wrong) = total
        /\ correct <= total
        /\ overtime_count <= total

====
